---- MODULE Spec2Model ----
(***************************************************************************)
(* Model of the geometry core of EDA/generate_logo_footprints.py:          *)
(*   - point_in_polygon, point_to_segment_dist, lerp, dist, normal_vec     *)
(*   - split_outline_near_filled  (the outline segmenter)                  *)
(*   - offset_polyline_to_polygon (the stroke-to-polygon offsetter)        *)
(*                                                                         *)
(* Arithmetic.  The program computes in binary floating point.  The model  *)
(* computes the same expressions exactly, over the rationals, on inputs    *)
(* with integer coordinates:                                               *)
(*   - a point is a pair <<x, y>> of integers;                             *)
(*   - a comparison between quotients is cross-multiplied;                 *)
(*   - a distance is kept as its square, a rational <<num, den>>;          *)
(*   - a unit normal is kept as a rational vector: the segments drawn for  *)
(*     the offsetter have integer length (axis-parallel or 3-4-5), so      *)
(*     sqrt is exact;                                                      *)
(*   - a point the offsetter emits at an irrational position (on an arc,   *)
(*     on a normalised bisector) is kept as the record of the quantities   *)
(*     the code computes it from.                                          *)
(* On integer coordinates a segment is shorter than the code's epsilons    *)
(* (1e-9, 1e-12) exactly when its length is 0.                             *)
(***************************************************************************)
EXTENDS Integers, Sequences, FiniteSets, TLC

\* src/EDA/generate_logo_footprints.py:33
SAMPLES_PER_SEG == 20
\* src/EDA/generate_logo_footprints.py:31
ENDCAP_SEGMENTS == 6

\* Bounds of the inputs drawn by the specifications.
MaxOutlineSegs == 3
MaxPolylineSegs == 3
MaxHalfWidth == 2
MaxCalls == 2

VARIABLES
    \* split_outline_near_filled: arguments, locals, position
    outline, trail_poly, lightning_poly, clearance,
    seg_i, samp_s, current, result, pcS,
    \* offset_polyline_to_polygon: arguments, locals, position
    points, half_width, round_caps, round_joins,
    vert_i, left, right, polygon, joins, nvCalls, pcO,
    \* point_in_polygon: the polygon under test and the log of calls made
    pipPoly, pipLog

varsS == <<outline, trail_poly, lightning_poly, clearance,
           seg_i, samp_s, current, result, pcS>>
varsO == <<points, half_width, round_caps, round_joins,
           vert_i, left, right, polygon, joins, nvCalls, pcO>>
varsP == <<pipPoly, pipLog>>
vars == <<varsS, varsO, varsP>>

-----------------------------------------------------------------------------
(* Geometry helpers                                                        *)

Abs(x) == IF x < 0 THEN -x ELSE x

\* dist(a, b) squared.
DistSq(a, b) == (b[1] - a[1]) * (b[1] - a[1]) + (b[2] - a[2]) * (b[2] - a[2])

\* lerp(a, b, t) at t = s / SAMPLES_PER_SEG.  The outlines drawn have vertex
\* differences that are multiples of SAMPLES_PER_SEG, so the division is exact.
Lerp(a, b, s) ==
    << a[1] + (s * (b[1] - a[1])) \div SAMPLES_PER_SEG,
       a[2] + (s * (b[2] - a[2])) \div SAMPLES_PER_SEG >>

\* point_to_segment_dist(p, a, b) squared, as the rational <<num, den>>.
\* u / len_sq is the unclamped parameter t; t = max(0, min(1, u / len_sq)).
PointToSegmentDistSq(p, a, b) ==
    LET dx == b[1] - a[1]
        dy == b[2] - a[2]
        len_sq == dx * dx + dy * dy
        u == (p[1] - a[1]) * dx + (p[2] - a[2]) * dy
    IN  IF len_sq = 0 THEN << DistSq(p, a), 1 >>
        ELSE IF u <= 0 THEN << DistSq(p, a), 1 >>
        ELSE IF u >= len_sq THEN << DistSq(p, b), 1 >>
        ELSE << DistSq(p, a) * len_sq - u * u, len_sq >>

\* d < clearance, for d = point_to_segment_dist(p, a, b) and clearance >= 0.
NearSegment(p, a, b, c) ==
    LET d2 == PointToSegmentDistSq(p, a, b)
    IN  d2[1] < c * c * d2[2]

\* Mutant: "<=" for "<" on the x-projection.
LeftOfCrossingNonStrict(px, py, pi, pj) ==
    LET dy == pj[2] - pi[2]
        num == (pj[1] - pi[1]) * (py - pi[2])
    IN  IF dy > 0 THEN (px - pi[1]) * dy <= num
        ELSE (px - pi[1]) * dy >= num

\* px < (xj - xi) * (py - yi) / (yj - yi) + xi, for yj # yi.
LeftOfCrossing(px, py, pi, pj) ==
    LET dy == pj[2] - pi[2]
        num == (pj[1] - pi[1]) * (py - pi[2])
    IN  IF dy > 0 THEN (px - pi[1]) * dy < num
        ELSE (px - pi[1]) * dy > num

\* The edge test of point_in_polygon's loop body.
EdgeToggles(px, py, pi, pj) ==
    /\ (pi[2] > py) # (pj[2] > py)
    /\ LeftOfCrossing(px, py, pi, pj)

\* The loop of point_in_polygon from index i on (1-based), with j and inside
\* as the loop carries them.
RECURSIVE PipLoop(_, _, _, _, _, _)
PipLoop(px, py, poly, i, j, inside) ==
    IF i > Len(poly) THEN inside
    ELSE PipLoop(px, py, poly, i + 1, i,
                 IF EdgeToggles(px, py, poly[i], poly[j]) THEN ~inside ELSE inside)

point_in_polygon(px, py, poly) == PipLoop(px, py, poly, 1, Len(poly), FALSE)

\* The edge list build_icon_elements derives from a polygon (wrapping).
PolyEdges(poly) ==
    [i \in 1..Len(poly) |-> << poly[i], poly[(i % Len(poly)) + 1] >>]

-----------------------------------------------------------------------------
(* split_outline_near_filled                                               *)

\* Mutant: the point-in-polygon test left out (only the clearance test).
SuppressedNearOnly(pt, tpoly, lpoly, edges, c) ==
    \E k \in 1..Len(edges) : NearSegment(pt, edges[k][1], edges[k][2], c)

\* Mutant: the clearance test left out (only the point-in-polygon test).
SuppressedInsideOnly(pt, tpoly, lpoly, edges, c) ==
    point_in_polygon(pt[1], pt[2], tpoly) \/ point_in_polygon(pt[1], pt[2], lpoly)

\* inside or near_edge, for one sample point.
Suppressed(pt, tpoly, lpoly, edges, c) ==
    LET inside == point_in_polygon(pt[1], pt[2], tpoly)
                  \/ point_in_polygon(pt[1], pt[2], lpoly)
        near_edge == \E k \in 1..Len(edges) : NearSegment(pt, edges[k][1], edges[k][2], c)
    IN  inside \/ near_edge

\* seg_len < 1e-9
Degenerate(p1, p2) == DistSq(p1, p2) = 0

\* Mutant: "if len(current) >= 1", a run of one point is emitted too.
EmitIfAny(res, cur) == IF Len(cur) >= 1 THEN Append(res, cur) ELSE res

\* "if len(current) >= 2: result.append(current)"
EmitIfLong(res, cur) == IF Len(cur) >= 2 THEN Append(res, cur) ELSE res

\* The body of the sample loop on result and on current.
StepResult(res, cur, supp) == IF supp THEN EmitIfLong(res, cur) ELSE res
StepCurrent(cur, pt, supp) == IF supp THEN << >> ELSE Append(cur, pt)

\* Mutant: the flush after the walk forgotten.
FlushResultNone(res, cur) == res

\* Mutant: the open run joined to the first sub-polyline when it ends where
\* that one starts (a merge across the wrap point).
FlushResultWrapMerge(res, cur) ==
    IF Len(cur) >= 2 /\ Len(res) >= 1 /\ cur[Len(cur)] = res[1][1]
    THEN << cur \o res[1] >> \o Tail(res)
    ELSE EmitIfLong(res, cur)

\* The flush after the walk.
FlushResult(res, cur) == EmitIfLong(res, cur)

all_edges == PolyEdges(trail_poly) \o PolyEdges(lightning_poly)

InWalk == pcS = "walk" /\ seg_i <= Len(outline) - 1

\* "if seg_len < 1e-9: continue"
SkipSegment ==
    /\ InWalk
    /\ Degenerate(outline[seg_i], outline[seg_i + 1])
    /\ seg_i' = seg_i + 1
    /\ UNCHANGED <<outline, trail_poly, lightning_poly, clearance,
                   samp_s, current, result, pcS>>
    /\ UNCHANGED <<varsO, varsP>>

\* One iteration of "for s in range(SAMPLES_PER_SEG + 1)".
SampleStep ==
    /\ InWalk
    /\ ~Degenerate(outline[seg_i], outline[seg_i + 1])
    /\ LET pt == Lerp(outline[seg_i], outline[seg_i + 1], samp_s)
           supp == Suppressed(pt, trail_poly, lightning_poly, all_edges, clearance)
       IN  /\ result' = StepResult(result, current, supp)
           /\ current' = StepCurrent(current, pt, supp)
    /\ IF samp_s = SAMPLES_PER_SEG
       THEN seg_i' = seg_i + 1 /\ samp_s' = 0
       ELSE seg_i' = seg_i /\ samp_s' = samp_s + 1
    /\ UNCHANGED <<outline, trail_poly, lightning_poly, clearance, pcS>>
    /\ UNCHANGED <<varsO, varsP>>

\* The final "if len(current) >= 2: result.append(current)" and the return.
Flush ==
    /\ pcS = "walk"
    /\ seg_i > Len(outline) - 1
    /\ result' = FlushResult(result, current)
    /\ pcS' = "done"
    /\ UNCHANGED <<outline, trail_poly, lightning_poly, clearance,
                   seg_i, samp_s, current>>
    /\ UNCHANGED <<varsO, varsP>>

-----------------------------------------------------------------------------
(* Inputs of split_outline_near_filled                                     *)

\* Outline vertices lie on a grid whose step is a multiple of SAMPLES_PER_SEG,
\* so that every sample point has integer coordinates (spacing 2).
GridStep == 2 * SAMPLES_PER_SEG
GridPoints == {<<x, y>> : x \in {0, GridStep}, y \in {0, GridStep}}

\* Consecutive outline vertices: equal (a zero-length segment) or one grid
\* step apart along an axis.
OutlineLink(a, b) == Abs(b[1] - a[1]) + Abs(b[2] - a[2]) \in {0, GridStep}

OutlinesOfSegs(k) ==
    {o \in [1..(k + 1) -> GridPoints] :
        /\ o[1] = <<0, 0>>
        /\ \A n \in 1..k : OutlineLink(o[n], o[n + 1])}

\* The closed square around the grid.
GridSquare == << <<0, 0>>, <<GridStep, 0>>, <<GridStep, GridStep>>,
                 <<0, GridStep>>, <<0, 0>> >>

Outlines == UNION {OutlinesOfSegs(k) : k \in 0..MaxOutlineSegs} \cup {GridSquare}

Rect(x0, y0, x1, y1) == << <<x0, y0>>, <<x1, y0>>, <<x1, y1>>, <<x0, y1>> >>

\* Fill polygons, in the units of the grid (samples of the edge y = 0 are at
\* x = 0, 2, .., 40).
TrailPolys ==
    { << >>,                          \* no fill
      Rect(-10, -10, 50, 50),         \* contains the whole grid
      Rect(13, -5, 21, 5),            \* across the middle of the bottom edge
      Rect(13, -5, 17, 5),            \* the same, narrower
      Rect(-5, -5, 5, 5),             \* over the corner (0, 0)
      Rect(35, -5, 45, 5),            \* over the corner (40, 0)
      Rect(100, 100, 110, 110) }      \* far from the grid

LightningPolys ==
    { << >>,
      Rect(19, -5, 27, 5),
      << <<30, 30>>, <<50, 30>>, <<40, 50>> >> }   \* triangle over (40, 40)

Clearances == {1, 2}

\* The scenario of the specification's section 8, in units of 0.1: the closed
\* square of side 10, an octagon of radius 2 about (5, 0) with its vertices
\* rounded to 0.1, no second fill, clearance 0.1. The octagon is taken in its
\* two symmetric orientations: a vertex at (7, 0), or a flat side facing +x.
ScenarioOutline == << <<0, 0>>, <<100, 0>>, <<100, 100>>, <<0, 100>>, <<0, 0>> >>
ScenarioOctagon == << <<70, 0>>, <<64, 14>>, <<50, 20>>, <<36, 14>>,
                      <<30, 0>>, <<36, -14>>, <<50, -20>>, <<64, -14>> >>
ScenarioOctagonFlat == << <<68, 8>>, <<58, 18>>, <<42, 18>>, <<32, 8>>,
                          <<32, -8>>, <<42, -18>>, <<58, -18>>, <<68, -8>> >>
ScenarioOctagons == {ScenarioOctagon, ScenarioOctagonFlat}
IsScenario == outline = ScenarioOutline /\ trail_poly \in ScenarioOctagons
              /\ lightning_poly = << >> /\ clearance = 1

\* The function that is not under study stays idle.
IdleS ==
    /\ outline = << >> /\ trail_poly = << >> /\ lightning_poly = << >>
    /\ clearance = 0 /\ seg_i = 1 /\ samp_s = 0
    /\ current = << >> /\ result = << >> /\ pcS = "idle"

IdleO ==
    /\ points = << >> /\ half_width = 0
    /\ round_caps = FALSE /\ round_joins = FALSE
    /\ vert_i = 1 /\ left = << >> /\ right = << >> /\ polygon = << >>
    /\ joins = << >> /\ nvCalls = 0 /\ pcO = "idle"

IdleP == pipPoly = << >> /\ pipLog = << >>

\* State at entry of split_outline_near_filled: result = [], current = [].
InitSplit ==
    /\ \/ /\ outline \in Outlines
          /\ trail_poly \in TrailPolys
          /\ lightning_poly \in LightningPolys
          /\ clearance \in Clearances
       \/ /\ outline = ScenarioOutline
          /\ trail_poly \in ScenarioOctagons
          /\ lightning_poly = << >>
          /\ clearance = 1
    /\ seg_i = 1 /\ samp_s = 0
    /\ current = << >> /\ result = << >>
    /\ pcS = "walk"
    /\ IdleO /\ IdleP

NextSplit == SkipSegment \/ SampleStep \/ Flush

SpecSplit == InitSplit /\ [][NextSplit]_vars

-----------------------------------------------------------------------------
(* What the walk is expected to return, stated on the inputs alone         *)

SegmentSamples(p1, p2) ==
    [k \in 1..(SAMPLES_PER_SEG + 1) |-> Lerp(p1, p2, k - 1)]

\* The sample points of outline o from segment i on, in walk order; a
\* zero-length segment contributes none.
RECURSIVE WalkFrom(_, _)
WalkFrom(o, i) ==
    IF i > Len(o) - 1 THEN << >>
    ELSE (IF Degenerate(o[i], o[i + 1]) THEN << >>
          ELSE SegmentSamples(o[i], o[i + 1])) \o WalkFrom(o, i + 1)

WalkSamples(o) == WalkFrom(o, 1)

\* cls[k] = TRUE iff the k-th sample of the walk is suppressed.
WalkClasses(ws) ==
    [k \in 1..Len(ws) |->
        Suppressed(ws[k], trail_poly, lightning_poly, all_edges, clearance)]

\* A maximal run of non-suppressed samples starts at a and ends at RunEnd.
RunStart(cls, a) == ~cls[a] /\ (a = 1 \/ cls[a - 1])
RunEnd(cls, a) ==
    CHOOSE b \in a..Len(cls) :
        /\ \A k \in a..b : ~cls[k]
        /\ b = Len(cls) \/ cls[b + 1]
LongRunStarts(cls) ==
    {a \in 1..Len(cls) : RunStart(cls, a) /\ RunEnd(cls, a) - a + 1 >= 2}
NthStart(S, n) == CHOOSE a \in S : Cardinality({b \in S : b < a}) = n - 1

\* The maximal runs of at least 2 non-suppressed samples, in walk order.
ExpectedRuns(ws, cls) ==
    LET S == LongRunStarts(cls)
    IN  [n \in 1..Cardinality(S) |->
            SubSeq(ws, NthStart(S, n), RunEnd(cls, NthStart(S, n)))]

HasLongSegment(o) == \E i \in 1..(Len(o) - 1) : ~Degenerate(o[i], o[i + 1])
IsClosed(o) == Len(o) >= 3 /\ o[1] = o[Len(o)]
Last(sq) == sq[Len(sq)]
AllClear(cls) == \A k \in 1..Len(cls) : ~cls[k]
AllSuppressed(cls) == \A k \in 1..Len(cls) : cls[k]

\* An axis-parallel rectangle, as Rect builds it, and strict containment in it.
IsBox(poly) ==
    /\ Len(poly) = 4
    /\ poly[1][1] < poly[3][1] /\ poly[1][2] < poly[3][2]
    /\ poly = Rect(poly[1][1], poly[1][2], poly[3][1], poly[3][2])
StrictlyInBox(pt, poly) ==
    /\ poly[1][1] < pt[1] /\ pt[1] < poly[3][1]
    /\ poly[1][2] < pt[2] /\ pt[2] < poly[3][2]
\* Every vertex, and so (a rectangle is convex) every point, of the outline
\* lies strictly inside one fill polygon.
OutlineInsideFill ==
    \E poly \in {trail_poly, lightning_poly} :
        IsBox(poly) /\ \A n \in 1..Len(outline) : StrictlyInBox(outline[n], poly)

-----------------------------------------------------------------------------
(* Claims about split_outline_near_filled                                  *)

\* C1 (as amended): for an outline with at least one segment of non-zero
\* length, all of whose samples are non-suppressed, the function returns
\* exactly one sub-polyline: every sample of every non-zero segment, in walk
\* order. It starts at the outline's first point and ends at its last point;
\* for a closed outline the final wrap point is included, not removed.
C1_AllClearOneRun ==
    pcS = "done" /\ HasLongSegment(outline) =>
        LET ws == WalkSamples(outline)
        IN  AllClear(WalkClasses(ws)) =>
                /\ result = << ws >>
                /\ result[1][1] = outline[1]
                /\ Last(result[1]) = Last(outline)

C1_Witness ==
    /\ pcS = "done" /\ IsClosed(outline) /\ HasLongSegment(outline)
    /\ trail_poly # << >>
    /\ AllClear(WalkClasses(WalkSamples(outline)))
    /\ Len(result) = 1

\* C1 (as stated): with all samples non-suppressed the result is exactly one
\* sub-polyline, the full outline minus the final wrap point if the outline is
\* closed (read generously: the samples of the outline without its closing
\* vertex).
MinusWrap(o) == IF IsClosed(o) THEN SubSeq(o, 1, Len(o) - 1) ELSE o
C1_Original ==
    pcS = "done" /\ HasLongSegment(outline) =>
        (AllClear(WalkClasses(WalkSamples(outline))) =>
            result = << WalkSamples(MinusWrap(outline)) >>)

\* C2: if the entire outline lies inside a fill polygon, or every sample is
\* classified suppressed, no sub-polyline is ever emitted: result stays empty
\* during the walk and the function returns the empty list.
C2_FullSuppression ==
    /\ OutlineInsideFill => result = << >> /\ current = << >>
    /\ pcS = "done" /\ AllSuppressed(WalkClasses(WalkSamples(outline)))
          => result = << >>

C2_Witness ==
    /\ pcS = "done" /\ OutlineInsideFill
    /\ Len(WalkSamples(outline)) >= 3 * (SAMPLES_PER_SEG + 1)
    /\ result = << >>

\* C9: the returned list is exactly the list, in walk order, of the maximal
\* runs of consecutive non-suppressed samples that have at least 2 points;
\* at every moment each emitted sub-polyline has at least 2 points.
C9_MaximalRuns ==
    /\ \A k \in 1..Len(result) : Len(result[k]) >= 2
    /\ pcS = "done" =>
          LET ws == WalkSamples(outline)
          IN  result = ExpectedRuns(ws, WalkClasses(ws))

\* A walk with a single non-suppressed sample between two suppressed ones
\* (dropped), two emitted runs, the last of them flushed at the end.
C9_Witness ==
    /\ pcS = "done" /\ Len(result) >= 2
    /\ LET ws == WalkSamples(outline)
           cls == WalkClasses(ws)
       IN  /\ \E a \in 2..(Len(ws) - 1) : cls[a - 1] /\ ~cls[a] /\ cls[a + 1]
           /\ ~cls[Len(ws)] /\ Last(Last(result)) = Last(ws)

\* C10: on a closed outline whose walk starts and ends with runs of at least
\* 2 non-suppressed samples, with a suppressed sample in between, the two
\* runs are returned separately, as the first and the last element of the
\* result; no element continues through the wrap point.
C10_NoWrapMerge ==
    pcS = "done" /\ IsClosed(outline) /\ HasLongSegment(outline) =>
        LET ws == WalkSamples(outline)
            cls == WalkClasses(ws)
            n == Len(ws)
        IN  (~cls[1] /\ ~cls[2] /\ ~cls[n - 1] /\ ~cls[n] /\ ~AllClear(cls)) =>
                /\ Len(result) >= 2
                /\ result[1] = SubSeq(ws, 1, RunEnd(cls, 1))
                /\ \E a \in 2..(n - 1) :
                      /\ RunStart(cls, a) /\ RunEnd(cls, a) = n
                      /\ Last(result) = SubSeq(ws, a, n)
                /\ result[1][1] = outline[1]
                /\ Last(Last(result)) = outline[1]

C10_Witness ==
    /\ pcS = "done" /\ IsClosed(outline) /\ Len(result) = 2
    /\ result[1][1] = outline[1]
    /\ Last(result[2]) = outline[1]
    /\ Len(result[1]) >= 2 /\ Len(result[2]) >= 2

\* Every point of sub-polyline sub is a sample of the outline segment p1-p2.
LiesOn(sub, p1, p2) ==
    \A k \in 1..Len(sub) :
        \E m \in 1..(SAMPLES_PER_SEG + 1) : sub[k] = SegmentSamples(p1, p2)[m]
PiecesOn(p1, p2) == {k \in 1..Len(result) : LiesOn(result[k], p1, p2)}

\* C7 (as amended): in the scenario the function returns exactly two
\* sub-polylines. The first is the left flank of the bottom edge, from (0, 0)
\* to the last sample before the suppressed region: x = 2.5 when the octagon
\* has a vertex at (7, 0), x = 3 when it has a flat side there. The second
\* starts at the first sample after the suppressed region (x = 7.5, or x = 7)
\* and continues unbroken through every sample of the other three edges, back
\* to (0, 0). The right flank and the other three edges are not returned as
\* segments of their own.
C7_ScenarioTwoPieces ==
    pcS = "done" /\ IsScenario =>
        LET ws == WalkSamples(outline)
            bottom == SegmentSamples(outline[1], outline[2])
            e == IF trail_poly = ScenarioOctagon THEN 6 ELSE 7
        IN  /\ Len(result) = 2
            /\ result[1] = SubSeq(bottom, 1, e)
            /\ Last(result[1]) = << 5 * (e - 1), 0 >>
            /\ result[2] = SubSeq(ws, SAMPLES_PER_SEG + 2 - e, 4 * (SAMPLES_PER_SEG + 1))
            /\ result[2][1] = << 100 - 5 * (e - 1), 0 >>
            /\ Last(result[2]) = <<0, 0>>
            /\ \A k \in (e + 1)..(SAMPLES_PER_SEG + 1 - e) :
                  Suppressed(bottom[k], trail_poly, lightning_poly,
                             all_edges, clearance)

C7_Witness ==
    /\ pcS = "done" /\ IsScenario /\ trail_poly = ScenarioOctagon
    /\ Len(result) = 2 /\ Len(result[1]) = 6 /\ Len(result[2]) = 69

\* C7 (as stated): the bottom edge is returned as two segments of its own,
\* flanking the suppressed middle, and each of the other three edges is
\* returned as one or two segments of its own.
C7_Original ==
    pcS = "done" /\ IsScenario =>
        /\ Cardinality(PiecesOn(outline[1], outline[2])) = 2
        /\ \A i \in 2..4 :
              Cardinality(PiecesOn(outline[i], outline[i + 1])) \in {1, 2}

-----------------------------------------------------------------------------
(* offset_polyline_to_polygon                                              *)

\* math.sqrt on a perfect square (the segments drawn have integer length).
ISqrt(x) == CHOOSE r \in 0..x : r * r = x

\* normal_vec(p1, p2): the unit normal <<-dy / length, dx / length>>, kept as
\* <<-dy, dx, length>>; the fixed normal (0, 1) for a zero-length segment.
NormalVec(p1, p2) ==
    LET dx == p2[1] - p1[1]
        dy == p2[2] - p1[2]
        length == ISqrt(dx * dx + dy * dy)
    IN  IF length = 0 THEN <<0, 1, 1>> ELSE <<-dy, dx, length>>

NegNormal(nv) == <<-nv[1], -nv[2], nv[3]>>

\* dot = n1[0] * n2[0] + n1[1] * n2[1], as the rational <<num, den>>, den > 0.
Dot(n1, n2) == << n1[1] * n2[1] + n1[2] * n2[2], n1[3] * n2[3] >>

\* Rationals <<num, den>> with den > 0.
RatLess(a, b) == a[1] * b[2] < b[1] * a[2]
RatMax(a, b) == IF RatLess(a, b) THEN b ELSE a
RatMin(a, b) == IF RatLess(b, a) THEN b ELSE a
RatInv(a) == << a[2], a[1] >>

\* dot < 0.95
DotBelowThreshold(dot) == RatLess(dot, <<95, 100>>)

\* "round_joins and dot < 0.95"
TakesRoundJoin(rj, dot) == rj /\ DotBelowThreshold(dot)

\* abs(da) >= k * (pi / 6), for da the angle from n1 to n2 taken the short
\* way (so cos(abs(da)) = dot): dot <= cos(k * 30 degrees).
AngleAtLeast(dot, k) ==
    CASE k = 1 -> dot[1] <= 0 \/ 4 * dot[1] * dot[1] <= 3 * dot[2] * dot[2]
      [] k = 2 -> 2 * dot[1] <= dot[2]
      [] k = 3 -> dot[1] <= 0
      [] k = 4 -> 2 * dot[1] <= -dot[2]
      [] k = 5 -> dot[1] <= 0 /\ 4 * dot[1] * dot[1] >= 3 * dot[2] * dot[2]
      [] k = 6 -> dot[1] <= -dot[2]

\* int(abs(da) / (math.pi / 6))
AngleSixths(dot) == Cardinality({k \in 1..6 : AngleAtLeast(dot, k)})

\* Mutant: the "max(2, ...)" left out.
ArcSegsNoMin(dot) == AngleSixths(dot) + 1

\* arc_segs = max(2, int(abs(da) / (math.pi / 6)) + 1)
ArcSegs(dot) == IF AngleSixths(dot) + 1 > 2 THEN AngleSixths(dot) + 1 ELSE 2

\* Mutant: the plain miter length 1 / ((1 + dot) / 2), neither floored at
\* 0.5 nor capped at 2.0.
MiterFactorUnclamped(dot) == RatInv(<< dot[2] + dot[1], 2 * dot[2] >>)

\* min(1.0 / max(0.5, (1 + dot) / 2), 2.0): hw / half_width in the miter join.
MiterFactor(dot) ==
    LET miter == RatInv(RatMax(<<1, 2>>, << dot[2] + dot[1], 2 * dot[2] >>))
    IN  RatMin(miter, <<2, 1>>)

\* bx, by = n1 + n2, over the common denominator; bl > 1e-12 iff it is not 0.
Bisector(n1, n2) ==
    << n1[1] * n2[3] + n2[1] * n1[3], n1[2] * n2[3] + n2[2] * n1[3], n1[3] * n2[3] >>
BisectorUsable(n1, n2) == Bisector(n1, n2)[1] # 0 \/ Bisector(n1, n2)[2] # 0

\* An emitted vertex, by the quantities the code computes it from:
\*   "off"  c + unit(n1) * hw      (hw signed: + on the left, - on the right)
\*   "arc"  c + (cos a, sin a) * hw, a = angle(n1) + (j / of) * da(n1 -> n2)
\*   "cap"  c + (cos a, sin a) * hw, a = angle(n1) - (j / of) * pi
Vertex(kind, c, n1, n2, j, of, hw) ==
    [kind |-> kind, c |-> c, n1 |-> n1, n2 |-> n2, j |-> j, of |-> of, hw |-> hw]

OffsetPoint(c, nv, hw) == Vertex("off", c, nv, nv, 0, 1, hw)

\* The points of one arc fan: "for j in range(arc_segs + 1)".
ArcFan(c, n1, n2, arc_segs, hw) ==
    [m \in 1..(arc_segs + 1) |-> Vertex("arc", c, n1, n2, m - 1, arc_segs, hw)]

\* Mutant: "for j in range(1, ENDCAP_SEGMENTS - 1)", the last cap point lost.
CapPointsShort(c, nv, hw) ==
    [m \in 1..(ENDCAP_SEGMENTS - 2) |-> Vertex("cap", c, nv, nv, m, ENDCAP_SEGMENTS, hw)]

\* The points of one cap: "for j in range(1, ENDCAP_SEGMENTS)".
CapPoints(c, nv, hw) ==
    [m \in 1..(ENDCAP_SEGMENTS - 1) |-> Vertex("cap", c, nv, nv, m, ENDCAP_SEGMENTS, hw)]

Reverse(sq) == [m \in 1..Len(sq) |-> sq[Len(sq) + 1 - m]]

\* Mutant: an empty list returned for a short input.
PassthroughEmpty(pts) == << >>

\* "if len(points) < 2: return points"
Passthrough(pts) == pts

\* What one vertex of the loop did: for the claims about joins.
JoinRec(i, kind, dot, nl, nr, hwf) ==
    [i |-> i, kind |-> kind, dot |-> dot, nl |-> nl, nr |-> nr, hwf |-> hwf]

IdleSplitAndPip == IdleS /\ IdleP

\* len(points) < 2: the input is returned as it is.
ReturnShort ==
    /\ pcO = "entry"
    /\ Len(points) < 2
    /\ polygon' = Passthrough(points)
    /\ pcO' = "done"
    /\ UNCHANGED <<points, half_width, round_caps, round_joins,
                   vert_i, left, right, joins, nvCalls>>
    /\ UNCHANGED <<varsS, varsP>>

\* n = len(points); left = []; right = []
EnterLoop ==
    /\ pcO = "entry"
    /\ Len(points) >= 2
    /\ left' = << >> /\ right' = << >> /\ vert_i' = 1
    /\ pcO' = "loop"
    /\ UNCHANGED <<points, half_width, round_caps, round_joins,
                   polygon, joins, nvCalls>>
    /\ UNCHANGED <<varsS, varsP>>

LoopExit == IF vert_i = Len(points) THEN "build" ELSE "loop"

\* i == 0 or i == n - 1: one offset point on each side, along the normal of
\* the one adjacent segment.
VertexEnd ==
    /\ pcO = "loop"
    /\ vert_i \in {1, Len(points)}
    /\ LET nv == IF vert_i = 1
                 THEN NormalVec(points[1], points[2])
                 ELSE NormalVec(points[Len(points) - 1], points[Len(points)])
       IN  /\ left' = Append(left, OffsetPoint(points[vert_i], nv, <<half_width, 1>>))
           /\ right' = Append(right, OffsetPoint(points[vert_i], nv, <<-half_width, 1>>))
           /\ joins' = Append(joins, JoinRec(vert_i, "end", <<1, 1>>, 1, 1, <<1, 1>>))
    /\ nvCalls' = nvCalls + 1
    /\ vert_i' = vert_i + 1
    /\ pcO' = LoopExit
    /\ UNCHANGED <<points, half_width, round_caps, round_joins, polygon>>
    /\ UNCHANGED <<varsS, varsP>>

\* Interior vertex, "if round_joins and dot < 0.95": an arc fan on each side.
VertexRoundJoin ==
    /\ pcO = "loop"
    /\ 1 < vert_i /\ vert_i < Len(points)
    /\ LET n1 == NormalVec(points[vert_i - 1], points[vert_i])
           n2 == NormalVec(points[vert_i], points[vert_i + 1])
           dot == Dot(n1, n2)
           arc_segs == ArcSegs(dot)
           fanL == ArcFan(points[vert_i], n1, n2, arc_segs, <<half_width, 1>>)
           fanR == ArcFan(points[vert_i], NegNormal(n1), NegNormal(n2), arc_segs,
                          <<half_width, 1>>)
       IN  /\ TakesRoundJoin(round_joins, dot)
           /\ left' = left \o fanL
           /\ right' = right \o fanR
           /\ joins' = Append(joins, JoinRec(vert_i, "arc", dot, Len(fanL), Len(fanR),
                                             <<1, 1>>))
    /\ nvCalls' = nvCalls + 2
    /\ vert_i' = vert_i + 1
    /\ UNCHANGED <<points, half_width, round_caps, round_joins, polygon, pcO>>
    /\ UNCHANGED <<varsS, varsP>>

\* Interior vertex, the else branch: the miter join, or the plain normal n1
\* when the bisector vanishes.
VertexMiterJoin ==
    /\ pcO = "loop"
    /\ 1 < vert_i /\ vert_i < Len(points)
    /\ LET n1 == NormalVec(points[vert_i - 1], points[vert_i])
           n2 == NormalVec(points[vert_i], points[vert_i + 1])
           dot == Dot(n1, n2)
           usable == BisectorUsable(n1, n2)
           b == IF usable THEN Bisector(n1, n2) ELSE n1
           hwf == IF usable THEN MiterFactor(dot) ELSE <<1, 1>>
           hw == << half_width * hwf[1], hwf[2] >>
       IN  /\ ~TakesRoundJoin(round_joins, dot)
           /\ left' = Append(left, OffsetPoint(points[vert_i], b, hw))
           /\ right' = Append(right, OffsetPoint(points[vert_i], b, <<-hw[1], hw[2]>>))
           /\ joins' = Append(joins, JoinRec(vert_i, IF usable THEN "miter" ELSE "plain",
                                             dot, 1, 1, hwf))
    /\ nvCalls' = nvCalls + 2
    /\ vert_i' = vert_i + 1
    /\ UNCHANGED <<points, half_width, round_caps, round_joins, polygon, pcO>>
    /\ UNCHANGED <<varsS, varsP>>

\* polygon = left + end cap + reversed(right) + start cap; return polygon.
BuildPolygon ==
    /\ pcO = "build"
    /\ LET n == Len(points)
           last_nv == NormalVec(points[n - 1], points[n])
           first_nv == NormalVec(points[1], points[2])
           endCap == IF round_caps
                     THEN CapPoints(points[n], last_nv, <<half_width, 1>>)
                     ELSE << >>
           startCap == IF round_caps
                       THEN CapPoints(points[1], NegNormal(first_nv), <<half_width, 1>>)
                       ELSE << >>
       IN  polygon' = left \o endCap \o Reverse(right) \o startCap
    /\ nvCalls' = nvCalls + (IF round_caps THEN 2 ELSE 0)
    /\ pcO' = "done"
    /\ UNCHANGED <<points, half_width, round_caps, round_joins,
                   vert_i, left, right, joins>>
    /\ UNCHANGED <<varsS, varsP>>

\* Segment directions of the polylines drawn: integer length each (1, 5, 13),
\* or zero. Their unit normals make dot take the values -1, -12/13, -4/5, -3/5,
\* -16/65, 0, 7/25, 3/5, 4/5, 56/65, 12/13, 24/25, 63/65 and 1.
Directions ==
    { <<1, 0>>, <<-1, 0>>, <<3, 4>>, <<4, 3>>, <<-3, 4>>, <<12, 5>>, <<0, 0>> }

RECURSIVE PathFrom(_, _)
PathFrom(start, steps) ==
    IF steps = << >> THEN << start >>
    ELSE << start >> \o PathFrom(<< start[1] + steps[1][1], start[2] + steps[1][2] >>,
                                 Tail(steps))

Polylines ==
    { << >> } \cup
    UNION { {PathFrom(<<0, 0>>, st) : st \in [1..k -> Directions]} :
            k \in 0..MaxPolylineSegs }

\* State at entry of offset_polyline_to_polygon.
InitOffset ==
    /\ points \in Polylines
    /\ half_width \in 1..MaxHalfWidth
    /\ round_caps \in BOOLEAN
    /\ round_joins \in BOOLEAN
    /\ vert_i = 1 /\ left = << >> /\ right = << >> /\ polygon = << >>
    /\ joins = << >> /\ nvCalls = 0
    /\ pcO = "entry"
    /\ IdleSplitAndPip

NextOffset ==
    \/ ReturnShort \/ EnterLoop \/ VertexEnd
    \/ VertexRoundJoin \/ VertexMiterJoin \/ BuildPolygon

SpecOffset == InitOffset /\ [][NextOffset]_vars

-----------------------------------------------------------------------------
(* Claims about offset_polyline_to_polygon                                 *)

IsInterior(i) == 1 < i /\ i < Len(points)

\* The segments into and out of vertex i are both of non-zero length and
\* point the same way (turn angle 0), stated on the points themselves.
Collinear(i) ==
    LET ax == points[i][1] - points[i - 1][1]
        ay == points[i][2] - points[i - 1][2]
        bx == points[i + 1][1] - points[i][1]
        by == points[i + 1][2] - points[i][2]
    IN  /\ ax * by - ay * bx = 0
        /\ ax * bx + ay * by > 0

\* dot(n1, n2) at interior vertex i.
DotAt(i) == Dot(NormalVec(points[i - 1], points[i]), NormalVec(points[i], points[i + 1]))

RECURSIVE SumField(_, _)
SumField(js, right_side) ==
    IF js = << >> THEN 0
    ELSE (IF right_side THEN js[1].nr ELSE js[1].nl) + SumField(Tail(js), right_side)

\* C3: for a polyline of n >= 2 points the returned polygon has at least 2 * n
\* vertices (at least n from the left path and n from the right path), plus
\* the ENDCAP_SEGMENTS - 1 arc points of each of the two caps when round_caps
\* is set.
C3_VertexCount ==
    pcO = "done" /\ Len(points) >= 2 =>
        LET caps == IF round_caps THEN 2 * (ENDCAP_SEGMENTS - 1) ELSE 0
        IN  /\ Len(left) >= Len(points)
            /\ Len(right) >= Len(points)
            /\ Len(polygon) = Len(left) + Len(right) + caps
            /\ Len(polygon) >= 2 * Len(points) + caps

C3_Witness ==
    /\ pcO = "done" /\ Len(points) >= 3 /\ round_caps /\ round_joins
    /\ Len(polygon) > 2 * Len(points) + 2 * (ENDCAP_SEGMENTS - 1)

\* The values of dot from -1 to 1 in steps of 0.05 (0.95 among them).
DotGrid == {<<k, 20>> : k \in -20..20}

\* C4: an interior vertex whose adjacent segments are collinear (dot = 1) is
\* joined by the miter branch, never by the arc fan, with round_joins set or
\* not; and whenever the miter branch is taken, for any dot, the offset
\* length is at most 2 * half_width.
C4_MiterCollinearAndCapped ==
    /\ \A k \in 1..Len(joins) :
          IsInterior(joins[k].i) =>
              /\ Collinear(joins[k].i) =>
                    /\ joins[k].kind = "miter"
                    /\ joins[k].dot[1] = joins[k].dot[2]
                    /\ joins[k].nl = 1 /\ joins[k].nr = 1
              /\ joins[k].kind \in {"miter", "plain"} =>
                    joins[k].hwf[1] <= 2 * joins[k].hwf[2]
    /\ pcO = "entry" =>
          \A d \in DotGrid :
              /\ MiterFactor(d)[1] <= 2 * MiterFactor(d)[2]
              /\ MiterFactor(d)[1] >= MiterFactor(d)[2]
              /\ (d[1] = d[2] => ~TakesRoundJoin(TRUE, d))

C4_Witness ==
    /\ pcO = "done" /\ round_joins
    /\ \E k \in 1..Len(joins) :
          IsInterior(joins[k].i) /\ Collinear(joins[k].i) /\ joins[k].kind = "miter"
    /\ \E k \in 1..Len(joins) :
          /\ joins[k].kind = "miter" /\ ~Collinear(joins[k].i)
          /\ joins[k].hwf[1] > joins[k].hwf[2]

\* C5: at an interior vertex with round_joins set and dot < 0.95 the left
\* path gets an arc fan of at least 2 sub-segments (at least 3 points) and the
\* right path a fan of as many points; at every other interior vertex each
\* path gets exactly one point; the two paths always have equal length.
C5_ArcFans ==
    /\ Len(left) = Len(right)
    /\ Len(left) = SumField(joins, FALSE)
    /\ Len(right) = SumField(joins, TRUE)
    /\ \A k \in 1..Len(joins) :
          IsInterior(joins[k].i) =>
              IF round_joins /\ 100 * DotAt(joins[k].i)[1] < 95 * DotAt(joins[k].i)[2]
              THEN /\ joins[k].kind = "arc"
                   /\ joins[k].nl >= 3
                   /\ joins[k].nr = joins[k].nl
              ELSE /\ joins[k].kind # "arc"
                   /\ joins[k].nl = 1 /\ joins[k].nr = 1

C5_Witness ==
    /\ pcO = "done" /\ round_joins
    /\ \E k \in 1..Len(joins) : joins[k].kind = "arc" /\ joins[k].nl = 3
    /\ \E k \in 1..Len(joins) : IsInterior(joins[k].i) /\ joins[k].kind = "miter"

\* C8: a polyline of 0 or 1 points is returned unchanged, for every
\* half_width and every cap/join flag: the state "done" is reached (no error),
\* no normal was computed and no offset point was built.
C8_ShortPassthrough ==
    pcO = "done" /\ Len(points) < 2 =>
        /\ polygon = points
        /\ nvCalls = 0
        /\ left = << >> /\ right = << >> /\ joins = << >>

C8_Witness ==
    /\ pcO = "done" /\ Len(points) = 1 /\ polygon = points
    /\ round_caps /\ round_joins /\ nvCalls = 0

-----------------------------------------------------------------------------
(* point_in_polygon, called repeatedly on one polygon                      *)

\* The unit square (0,0),(1,0),(1,1),(0,1) in units of 1/2, so that the
\* interior point (0.5, 0.5) is <<1, 1>> and the exterior point (2, 2) is
\* <<4, 4>>.
UnitSquare == << <<0, 0>>, <<2, 0>>, <<2, 2>>, <<0, 2>> >>
PipPolys ==
    { UnitSquare,
      << <<0, 0>>, <<0, 2>>, <<2, 2>>, <<2, 0>> >>,     \* the same, clockwise
      << <<0, 0>>, <<4, 0>>, <<2, 3>> >> }               \* a triangle
QueryPoints == {<<x, y>> : x \in 0..4, y \in 0..4}

\* One call point_in_polygon(px, py, pipPoly); the log keeps what it returned.
CallPointInPolygon ==
    /\ Len(pipLog) < MaxCalls
    /\ pipPoly # << >>
    /\ \E q \in QueryPoints :
          pipLog' = Append(pipLog, [q |-> q, inside |-> point_in_polygon(q[1], q[2], pipPoly)])
    /\ UNCHANGED pipPoly
    /\ UNCHANGED <<varsS, varsO>>

InitPip ==
    /\ pipPoly \in PipPolys
    /\ pipLog = << >>
    /\ IdleS /\ IdleO

NextPip == CallPointInPolygon

SpecPip == InitPip /\ [][NextPip]_vars

\* The even-odd rule stated on the edges as a set: edge (lo, hi), lo the
\* lower end, is crossed by the ray from p towards +x when lo.y <= p.y < hi.y
\* (half-open) and p is strictly to the left of the edge.
EdgeCrossed(p, a, b) ==
    LET lo == IF a[2] <= b[2] THEN a ELSE b
        hi == IF a[2] <= b[2] THEN b ELSE a
    IN  /\ lo[2] <= p[2] /\ p[2] < hi[2]
        /\ (hi[1] - lo[1]) * (p[2] - lo[2]) - (hi[2] - lo[2]) * (p[1] - lo[1]) > 0
CrossedEdges(p, poly) ==
    {i \in 1..Len(poly) : EdgeCrossed(p, poly[i], poly[(i % Len(poly)) + 1])}
OddCrossings(p, poly) == Cardinality(CrossedEdges(p, poly)) % 2 = 1

IsVertexOf(q, poly) == \E i \in 1..Len(poly) : poly[i] = q

\* C6: on the unit square, (0.5, 0.5) is classified inside and (2, 2) outside;
\* a query on a vertex gets the same answer on every call, the one the
\* even-odd rule with half-open edges and strict "<" gives: inside for the
\* vertex (0, 0), outside for the other three.
C6_UnitSquare ==
    /\ \A k \in 1..Len(pipLog) :
          /\ pipLog[k].inside = OddCrossings(pipLog[k].q, pipPoly)
          /\ pipPoly = UnitSquare =>
                /\ pipLog[k].q = <<1, 1>> => pipLog[k].inside
                /\ pipLog[k].q = <<4, 4>> => ~pipLog[k].inside
                /\ IsVertexOf(pipLog[k].q, pipPoly) =>
                      (pipLog[k].inside <=> pipLog[k].q = <<0, 0>>)
    /\ \A k1, k2 \in 1..Len(pipLog) :
          pipLog[k1].q = pipLog[k2].q => pipLog[k1].inside = pipLog[k2].inside

\* Two calls on the same vertex of the unit square.
C6_Witness ==
    /\ pipPoly = UnitSquare /\ Len(pipLog) >= 2
    /\ pipLog[1].q = <<2, 0>> /\ pipLog[2].q = <<2, 0>>
    /\ ~pipLog[1].inside /\ ~pipLog[2].inside

====
